---- MODULE Spec2Model ----
(***************************************************************************)
(* CoinActivity::from_transaction of the indexer's coin models              *)
(* (crates/indexer/src/models/coin_models/coin_activities.rs): one          *)
(* API transaction in, four collections out (coin activities, coin infos,   *)
(* coin balances, current coin balances).                                   *)
(*                                                                          *)
(* The run of from_transaction on one transaction is a state machine: the   *)
(* transaction is drawn in Init, then the match on the transaction variant  *)
(* and the gas event, the table-item pass, the resource pass, the event     *)
(* pass and the return each are a step.  A panic (an unwrap of an Err, the  *)
(* panic! of from_parsed_event, an overflow check) ends the run with        *)
(* nothing returned.                                                        *)
(*                                                                          *)
(* Integers of the API that are u64 (version, gas used, gas unit price,     *)
(* creation number, sequence number) are words of WordBits bits, and i64 is *)
(* the signed word of the same width; amounts, balances and supplies are    *)
(* BigDecimal and stay unbounded naturals.  Strings that are only compared  *)
(* are TLA+ strings; the entry function name, which is cut, is a sequence   *)
(* of characters.  An Option is a sequence of length 0 (None) or 1 (Some).  *)
(***************************************************************************)
EXTENDS Integers, Sequences, FiniteSets, TLC

\* ------------------------------------------------------------------ bounds

\* width of the model's u64 / i64 words
WordBits == 5
\* longest change list of a drawn transaction
MaxChanges == 2
\* longest event list of a drawn transaction
MaxEvents == 2
\* longest function name (the last component of the entry function id)
MaxFnNameLen == 94
\* latest reading of the wall clock
MaxClock == 1

\* ---------------------------------------------------------------- integers

RECURSIVE Pow2(_)
Pow2(n) == IF n = 0 THEN 1 ELSE 2 * Pow2(n - 1)

U64Max == Pow2(WordBits) - 1
I64Max == Pow2(WordBits - 1) - 1

\* `x as i64` for a u64 x: the same bits read as two's complement
AsI64(x) == IF x > I64Max THEN x - Pow2(WordBits) ELSE x

Min(a, b) == IF a < b THEN a ELSE b

\* ----------------------------------------------------------------- options

None == <<>>
Some(v) == <<v>>
IsSome(o) == Len(o) = 1
Unwrap(o) == o[1]

\* Result<T, E>
Ok(v) == [tag |-> "Ok", val |-> v]
Err(e) == [tag |-> "Err", err |-> e]

\* -------------------------------------------------------------------- maps

\* HashMap::new()
EmptyMap == [k \in {} |-> k]
\* HashMap::insert(k, v): the new value replaces the old one
MapInsert(m, k, v) == (k :> v) @@ m
\* HashMap::extend(other): every entry of other is inserted
MapExtend(m, other) == other @@ m
\* HashMap::get(k)
MapGet(m, k) == IF k \in DOMAIN m THEN Some(m[k]) ELSE None

\* ------------------------------------------------- recognized type names

BURN_GAS_EVENT == "0x1::aptos_coin::GasBurnEvent"
BURN_GAS_EVENT_CREATION_NUM == -1
BURN_GAS_EVENT_SEQUENCE_NUM == -1
\* aptos_types::APTOS_COIN_TYPE.to_string()
APTOS_COIN_TYPE == "0x1::aptos_coin::AptosCoin"
\* the type names the classifiers of coin_utils / coin_infos match
COIN_INFO_TYPE == "0x1::coin::CoinInfo"
COIN_STORE_TYPE == "0x1::coin::CoinStore"
WITHDRAW_EVENT_TYPE == "0x1::coin::WithdrawEvent"
DEPOSIT_EVENT_TYPE == "0x1::coin::DepositEvent"
\* the limit from_transaction passes to truncate_str
EntryFunctionIdMaxLen == 100

\* ------------------------------------------------------ the API's values

\* EventGuid / EventGuidResource: an account address and a creation number
Guid(addr, num) == [account_address |-> addr, creation_number |-> num]

\* WriteSetChange::WriteTableItem; value_type "u128" is the aggregator shape,
\* and value is Some(number), or None when the bytes decode to no number
WriteTableItem(handle, value_type, value) ==
    [kind |-> "WriteTableItem", handle |-> handle,
     value_type |-> value_type, value |-> value]

\* the supply descriptor of a CoinInfo resource
DirectSupply(n) == [tag |-> "Integer", value |-> n]
AggregatorSupply(handle) == [tag |-> "Aggregator", handle |-> handle]

\* WriteSetChange::WriteResource of a 0x1::coin::CoinInfo<coin_type>
CoinInfoWrite(address, coin_type, supply) ==
    [kind |-> "WriteResource", address |-> address, typ |-> COIN_INFO_TYPE,
     coin_type |-> coin_type,
     data |-> [shape |-> "CoinInfo", name |-> coin_type, symbol |-> coin_type,
               decimals |-> 8, supply |-> supply]]

\* WriteSetChange::WriteResource of a 0x1::coin::CoinStore<coin_type>
CoinStoreWrite(address, coin_type, balance, deposit_guid, withdraw_guid) ==
    [kind |-> "WriteResource", address |-> address, typ |-> COIN_STORE_TYPE,
     coin_type |-> coin_type,
     data |-> [shape |-> "CoinStore", coin_value |-> balance,
               deposit_events |-> deposit_guid,
               withdraw_events |-> withdraw_guid]]

\* a resource write whose payload is not what its type name implies
MalformedWrite(address, typ, coin_type) ==
    [kind |-> "WriteResource", address |-> address, typ |-> typ,
     coin_type |-> coin_type, data |-> [shape |-> "Garbage"]]

\* a resource write of a type that is neither CoinInfo nor CoinStore
OtherResourceWrite(address) ==
    [kind |-> "WriteResource", address |-> address, typ |-> "0x1::account::Account",
     coin_type |-> "", data |-> [shape |-> "Account"]]

\* any other WriteSetChange (DeleteResource, WriteModule, ...)
OtherChange == [kind |-> "DeleteResource"]

\* Event: type, guid, sequence number and decoded data
Event(typ, guid, sequence_number, data) ==
    [typ |-> typ, guid |-> guid, sequence_number |-> sequence_number, data |-> data]
AmountData(amount) == [shape |-> "Amount", amount |-> amount]
GarbageData == [shape |-> "Garbage"]

\* characters are one-letter strings, a name is a sequence of them
Chars(n, c, d) == [j \in 1..n |-> IF j % 2 = 1 THEN c ELSE d]
\* EntryFunctionId: module address, module name, function name
EntryFunctionId(n) ==
    [address |-> <<"0", "x", "1">>, module |-> <<"m">>, name |-> Chars(n, "f", "g")]
EntryFunctionPayload(function) == [kind |-> "EntryFunctionPayload", function |-> function]
ScriptPayload == [kind |-> "ScriptPayload"]

\* Transaction: the variant, TransactionInfo (version, success, gas_used,
\* changes), the events and, for a user transaction, the request (sender,
\* gas_unit_price, payload)
Transaction(variant, version, success, gas_used, sender, gas_unit_price, payload, changes, events) ==
    [variant |-> variant, version |-> version, success |-> success,
     gas_used |-> gas_used, sender |-> sender, gas_unit_price |-> gas_unit_price,
     payload |-> payload, changes |-> changes, events |-> events]

\* ------------------------------------------- the classifiers and helpers

\* EventGuidResource { addr, creation_num: i64 }
EventGuidResource(addr, creation_num) == [addr |-> addr, creation_num |-> creation_num]

\* CoinInfo::get_aggregator_supply_lookup: the one-entry lookup of an
\* aggregator-shaped table item, the empty lookup of any other table item
get_aggregator_supply_lookup(table_item) ==
    IF table_item.value_type # "u128" THEN Ok(EmptyMap)
    ELSE IF IsSome(table_item.value)
         THEN Ok(table_item.handle :> Unwrap(table_item.value))
         ELSE Err("DecodeError")

\* CoinInfo::from_write_resource: the CoinInfo of a coin-info write, its
\* supply read from the resource or looked up by aggregator handle
CoinInfo_from_write_resource(write_resource, txn_version, lookup) ==
    IF write_resource.typ # COIN_INFO_TYPE THEN Ok(None)
    ELSE IF write_resource.data.shape # "CoinInfo" THEN Err("DecodeError")
    ELSE Ok(Some(
        [coin_type |-> write_resource.coin_type,
         transaction_version_created |-> txn_version,
         creator_address |-> write_resource.address,
         name |-> write_resource.data.name,
         symbol |-> write_resource.data.symbol,
         decimals |-> write_resource.data.decimals,
         supply |-> IF write_resource.data.supply.tag = "Integer"
                    THEN Some(write_resource.data.supply.value)
                    ELSE MapGet(lookup, write_resource.data.supply.handle)]))

\* CoinBalance::from_write_resource: the balance, the current balance and
\* the two event-to-coin-type entries of a coin-store write
CoinBalance_from_write_resource(write_resource, txn_version) ==
    IF write_resource.typ # COIN_STORE_TYPE THEN Ok(None)
    ELSE IF write_resource.data.shape # "CoinStore" THEN Err("DecodeError")
    ELSE LET deposit == EventGuidResource(
                 write_resource.data.deposit_events.account_address,
                 AsI64(write_resource.data.deposit_events.creation_number))
             withdraw == EventGuidResource(
                 write_resource.data.withdraw_events.account_address,
                 AsI64(write_resource.data.withdraw_events.creation_number))
         IN Ok(Some(
            [coin_balance |->
                [transaction_version |-> txn_version,
                 owner_address |-> write_resource.address,
                 coin_type |-> write_resource.coin_type,
                 amount |-> write_resource.data.coin_value,
                 deposit_events |-> deposit,
                 withdraw_events |-> withdraw],
             current_coin_balance |->
                [owner_address |-> write_resource.address,
                 coin_type |-> write_resource.coin_type,
                 amount |-> write_resource.data.coin_value,
                 last_transaction_version |-> txn_version],
             event_to_coin_type |->
                (deposit :> write_resource.coin_type)
                    @@ (withdraw :> write_resource.coin_type)]))

\* CoinEvent::from_event: the typed event of a withdraw or a deposit, None
\* for every other event type
CoinEvent_from_event(event_type, data, txn_version) ==
    IF event_type = WITHDRAW_EVENT_TYPE
    THEN IF data.shape = "Amount"
         THEN Ok(Some([tag |-> "WithdrawCoinEvent", amount |-> data.amount]))
         ELSE Err("DecodeError")
    ELSE IF event_type = DEPOSIT_EVENT_TYPE
    THEN IF data.shape = "Amount"
         THEN Ok(Some([tag |-> "DepositCoinEvent", amount |-> data.amount]))
         ELSE Err("DecodeError")
    ELSE Ok(None)

\* util::truncate_str: the first max_chars characters of val
truncate_str(val, max_chars) == SubSeq(val, 1, Min(Len(val), max_chars))

\* EntryFunctionId::to_string: address::module::name
EntryFunctionId_to_string(function) ==
    function.address \o <<":", ":">> \o function.module \o <<":", ":">> \o function.name

\* u64 * u64: the product when it fits; beyond the word an overflow-checked
\* build panics and an unchecked build keeps the low bits
MulU64(a, b) ==
    IF a * b <= U64Max THEN {Ok(a * b)}
    ELSE {Ok((a * b) % Pow2(WordBits)), Err("Overflow")}

\* ------------------------------------------------------ coin_activities.rs

\* variant of EntryFunctionIdStr that keeps the whole entry function id
EntryFunctionIdStr_Whole(payload) ==
    IF payload.kind = "EntryFunctionPayload"
    THEN Some(EntryFunctionId_to_string(payload.function))
    ELSE None

\* from_transaction, the match on the payload: the entry function id, cut to
\* 100 characters, of an entry-function payload
EntryFunctionIdStr(payload) ==
    IF payload.kind = "EntryFunctionPayload"
    THEN Some(truncate_str(EntryFunctionId_to_string(payload.function),
                           EntryFunctionIdMaxLen))
    ELSE None

\* get_gas_event, the amount: gas_used * gas_unit_price, multiplied as u64
aptos_coin_burned(txn_info) == MulU64(txn_info.gas_used, txn_info.gas_unit_price)

\* variant of get_gas_event that records the entry function id of the request
get_gas_event_WithEntryFn(txn_info, burned, time) ==
    [transaction_version |-> AsI64(txn_info.version),
     event_account_address |-> txn_info.sender,
     event_creation_number |-> BURN_GAS_EVENT_CREATION_NUM,
     event_sequence_number |-> BURN_GAS_EVENT_SEQUENCE_NUM,
     owner_address |-> txn_info.sender,
     coin_type |-> APTOS_COIN_TYPE,
     amount |-> burned,
     activity_type |-> BURN_GAS_EVENT,
     is_gas_fee |-> TRUE,
     is_transaction_success |-> txn_info.success,
     entry_function_id_str |-> EntryFunctionIdStr(txn_info.payload),
     inserted_at |-> time]

\* variant of get_gas_event that numbers the gas activity (0, 0)
get_gas_event_ZeroGuid(txn_info, burned, time) ==
    [transaction_version |-> AsI64(txn_info.version),
     event_account_address |-> txn_info.sender,
     event_creation_number |-> 0,
     event_sequence_number |-> 0,
     owner_address |-> txn_info.sender,
     coin_type |-> APTOS_COIN_TYPE,
     amount |-> burned,
     activity_type |-> BURN_GAS_EVENT,
     is_gas_fee |-> TRUE,
     is_transaction_success |-> txn_info.success,
     entry_function_id_str |-> None,
     inserted_at |-> time]

\* variant of get_gas_event that records every gas burn as a success, like
\* the activities of events
get_gas_event_AlwaysSuccess(txn_info, burned, time) ==
    [transaction_version |-> AsI64(txn_info.version),
     event_account_address |-> txn_info.sender,
     event_creation_number |-> BURN_GAS_EVENT_CREATION_NUM,
     event_sequence_number |-> BURN_GAS_EVENT_SEQUENCE_NUM,
     owner_address |-> txn_info.sender,
     coin_type |-> APTOS_COIN_TYPE,
     amount |-> burned,
     activity_type |-> BURN_GAS_EVENT,
     is_gas_fee |-> TRUE,
     is_transaction_success |-> TRUE,
     entry_function_id_str |-> None,
     inserted_at |-> time]

\* get_gas_event, the record built around the burned amount
get_gas_event(txn_info, burned, time) ==
    [transaction_version |-> AsI64(txn_info.version),
     event_account_address |-> txn_info.sender,
     event_creation_number |-> BURN_GAS_EVENT_CREATION_NUM,
     event_sequence_number |-> BURN_GAS_EVENT_SEQUENCE_NUM,
     owner_address |-> txn_info.sender,
     coin_type |-> APTOS_COIN_TYPE,
     amount |-> burned,
     activity_type |-> BURN_GAS_EVENT,
     is_gas_fee |-> TRUE,
     is_transaction_success |-> txn_info.success,
     entry_function_id_str |-> None,
     inserted_at |-> time]

\* the message of the panic! in from_parsed_event
MissingCoinType(txn_version, event_move_guid, event_to_coin_type) ==
    [kind |-> "MissingCoinType", version |-> txn_version,
     guid |-> event_move_guid, mapping |-> event_to_coin_type]

\* variant of from_parsed_event that falls back to an empty coin type
\* (unwrap_or_default) when the guid is no key of the map
from_parsed_event_OrDefault(event_type, event, coin_event, txn_version, event_to_coin_type, entry_fn, time) ==
    LET event_move_guid == EventGuidResource(event.guid.account_address,
                                             AsI64(event.guid.creation_number))
        coin_type == MapGet(event_to_coin_type, event_move_guid)
    IN Ok([transaction_version |-> txn_version,
           event_account_address |-> event.guid.account_address,
           event_creation_number |-> AsI64(event.guid.creation_number),
           event_sequence_number |-> AsI64(event.sequence_number),
           owner_address |-> event.guid.account_address,
           coin_type |-> IF IsSome(coin_type) THEN Unwrap(coin_type) ELSE "",
           amount |-> coin_event.amount,
           activity_type |-> event_type,
           is_gas_fee |-> FALSE,
           is_transaction_success |-> TRUE,
           entry_function_id_str |-> entry_fn,
           inserted_at |-> time])

\* variant of from_parsed_event that names the activity after the parsed
\* event's variant instead of the event's type
from_parsed_event_VariantName(event_type, event, coin_event, txn_version, event_to_coin_type, entry_fn, time) ==
    LET event_move_guid == EventGuidResource(event.guid.account_address,
                                             AsI64(event.guid.creation_number))
        coin_type == MapGet(event_to_coin_type, event_move_guid)
    IN IF ~IsSome(coin_type)
       THEN Err(MissingCoinType(txn_version, event_move_guid, event_to_coin_type))
       ELSE Ok([transaction_version |-> txn_version,
                event_account_address |-> event.guid.account_address,
                event_creation_number |-> AsI64(event.guid.creation_number),
                event_sequence_number |-> AsI64(event.sequence_number),
                owner_address |-> event.guid.account_address,
                coin_type |-> Unwrap(coin_type),
                amount |-> coin_event.amount,
                activity_type |-> coin_event.tag,
                is_gas_fee |-> FALSE,
                is_transaction_success |-> TRUE,
                entry_function_id_str |-> entry_fn,
                inserted_at |-> time])

\* from_parsed_event: the activity of a withdraw or deposit event, or the
\* panic when the event's guid is no key of event_to_coin_type
from_parsed_event(event_type, event, coin_event, txn_version, event_to_coin_type, entry_fn, time) ==
    LET amount == coin_event.amount
        event_move_guid == EventGuidResource(event.guid.account_address,
                                             AsI64(event.guid.creation_number))
        coin_type == MapGet(event_to_coin_type, event_move_guid)
    IN IF ~IsSome(coin_type)
       THEN Err(MissingCoinType(txn_version, event_move_guid, event_to_coin_type))
       ELSE Ok([transaction_version |-> txn_version,
                event_account_address |-> event.guid.account_address,
                event_creation_number |-> AsI64(event.guid.creation_number),
                event_sequence_number |-> AsI64(event.sequence_number),
                owner_address |-> event.guid.account_address,
                coin_type |-> Unwrap(coin_type),
                amount |-> amount,
                activity_type |-> event_type,
                is_gas_fee |-> FALSE,
                is_transaction_success |-> TRUE,
                entry_function_id_str |-> entry_fn,
                inserted_at |-> time])

\* Default::default() of the returned tuple
DefaultOutput ==
    [coin_activities |-> <<>>, coin_infos |-> <<>>, coin_balances |-> <<>>,
     current_coin_balances |-> EmptyMap]

\* ------------------------------------------------------------------ inputs

SeqUpTo(S, n) == UNION {[1..k -> S] : k \in 0..n}

Variants == {"GenesisTransaction", "UserTransaction", "BlockMetadataTransaction"}
Clock == 0..MaxClock

StoreAX == CoinStoreWrite("0xA", "X", 100, Guid("0xA", 7), Guid("0xA", 8))
DepositA7 == Event(DEPOSIT_EVENT_TYPE, Guid("0xA", 7), 0, AmountData(50))

\* coin-store writes: the same (owner, coin type) with two balances, one guid
\* under two coin types, a guid at the top of the u64 range; and changes that
\* are no coin-store write
LedgerChanges ==
    {StoreAX,
     CoinStoreWrite("0xA", "X", 200, Guid("0xA", 7), Guid("0xA", 8)),
     CoinStoreWrite("0xA", "Y", 100, Guid("0xA", 7), Guid("0xA", U64Max)),
     CoinStoreWrite("0xB", "X", 300, Guid("0xB", 7), Guid("0xB", 8)),
     OtherChange}

\* deposits and withdraws on those guids and on (B, 9), which no coin store
\* of LedgerChanges registers; and an event of another type
LedgerEvents ==
    {DepositA7,
     Event(DEPOSIT_EVENT_TYPE, Guid("0xA", 7), 1, AmountData(60)),
     Event(WITHDRAW_EVENT_TYPE, Guid("0xA", U64Max), U64Max, AmountData(70)),
     Event(DEPOSIT_EVENT_TYPE, Guid("0xB", 9), 0, AmountData(50)),
     Event("0x1::stake::AddStakeEvent", Guid("0xB", 9), 0, AmountData(50))}

LedgerTxns ==
    {Transaction(v, 1, TRUE, 2, "0xA", 3, EntryFunctionPayload(EntryFunctionId(1)), c, e) :
        v \in Variants, c \in SeqUpTo(LedgerChanges, MaxChanges),
        e \in SeqUpTo(LedgerEvents, MaxEvents)}

\* aggregator table items (two values for handle 42), a table item that is
\* not aggregator-shaped, coin infos with direct and aggregator supply, and a
\* resource that is no coin resource; one change more than elsewhere, for two
\* table items of one handle and the coin info that refers to it
SupplyChanges ==
    {WriteTableItem(42, "u128", Some(42)),
     WriteTableItem(42, "u128", Some(7)),
     WriteTableItem(42, "u64", Some(9)),
     CoinInfoWrite("0xA", "X", AggregatorSupply(42)),
     CoinInfoWrite("0xB", "Y", AggregatorSupply(43)),
     CoinInfoWrite("0xA", "Y", DirectSupply(0)),
     OtherResourceWrite("0xA")}

SupplyTxns ==
    {Transaction(v, 1, TRUE, 2, "0xA", 3, ScriptPayload, c, <<>>) :
        v \in {"GenesisTransaction", "UserTransaction"},
        c \in SeqUpTo(SupplyChanges, MaxChanges + 1)}

\* the header of the transaction: variant, version, success, gas, sender
GasValues == {0, 2, U64Max}
HeaderTxns ==
    {Transaction(v, ver, ok, g, s, p, ScriptPayload, <<StoreAX>>, <<DepositA7>>) :
        v \in Variants, ver \in {1, U64Max}, ok \in BOOLEAN, g \in GasValues,
        s \in {"0xA", "0xB"}, p \in GasValues}

\* payloads: entry functions whose id is short, just below, at and beyond
\* 100 characters, and a payload that is no entry function
FnNameLens == {1} \cup ((MaxFnNameLen - 4)..MaxFnNameLen)
Payloads == {EntryFunctionPayload(EntryFunctionId(n)) : n \in FnNameLens} \cup {ScriptPayload}
PayloadTxns ==
    {Transaction(v, 1, ok, 2, "0xA", 3, p, <<StoreAX>>, <<DepositA7>>) :
        v \in Variants, ok \in BOOLEAN, p \in Payloads}

\* payloads that contradict their type name
MalformedChanges ==
    {MalformedWrite("0xA", COIN_STORE_TYPE, "X"),
     MalformedWrite("0xA", COIN_INFO_TYPE, "X"),
     WriteTableItem(42, "u128", None)}
MalformedEvents == {Event(DEPOSIT_EVENT_TYPE, Guid("0xA", 7), 0, GarbageData)}
MalformedTxns ==
    {Transaction(v, 1, TRUE, 2, "0xA", 3, ScriptPayload, c, e) :
        v \in Variants,
        c \in {<<StoreAX>>} \cup {<<StoreAX, m>> : m \in MalformedChanges}
                \cup {<<m, StoreAX>> : m \in MalformedChanges},
        e \in {<<DepositA7>>} \cup {<<DepositA7, m>> : m \in MalformedEvents}
                \cup {<<m, DepositA7>> : m \in MalformedEvents}}

Transactions == LedgerTxns \cup SupplyTxns \cup HeaderTxns \cup PayloadTxns \cup MalformedTxns

\* ------------------------------------------------------------------- state

VARIABLES
    txn,                     \* the transaction from_transaction is called on
    now,                     \* chrono::Utc::now() during the call
    pc,                      \* "match", "table_items", "resources", "events",
                             \* "return", "done" or "panicked"
    idx,                     \* position of the running for loop
    entry_function_id_str,
    coin_activities,
    coin_infos,
    coin_balances,
    current_coin_balances,
    all_event_to_coin_type,
    supply_lookup,
    result,                  \* Some(the returned tuple) once returned
    panic                    \* Some(the panic message) once panicked

\* the state of the workers that call from_transaction side by side, and of
\* the table of current coin balances their outputs are written to
VARIABLES
    worker_txn,              \* worker -> the transaction of its call
    worker_now,              \* worker -> chrono::Utc::now() during its call
    overflow_checks,         \* whether the build panics on integer overflow
    call,                    \* worker -> the position and locals of its call
    maps,                    \* the two lookups of each call
    stored,                  \* (owner, coin type) -> the stored current balance
    applied                  \* the (worker, key) records written so far, in order

wvars == <<worker_txn, worker_now, overflow_checks, call, maps, stored, applied>>

locals == <<entry_function_id_str, coin_activities, coin_infos, coin_balances,
            current_coin_balances, all_event_to_coin_type, supply_lookup>>
cvars == <<txn, now, pc, idx, entry_function_id_str, coin_activities, coin_infos,
           coin_balances, current_coin_balances, all_event_to_coin_type,
           supply_lookup, result, panic>>
vars == <<cvars, wvars>>

\* variant of TxnVersion that stamps every record with version 0
TxnVersion_Zero(t) == 0

\* let txn_version = txn_info.version.0 as i64
TxnVersion(t) == AsI64(t.version)

\* variant of maybe_user_request that finds a request in every transaction
maybe_user_request_Always(t) == Some(t)

\* the match on the variant: the user request of a user transaction, None
\* for a genesis transaction (other variants return before it is used)
maybe_user_request(t) == IF t.variant = "UserTransaction" THEN Some(t) ELSE None

\* variant of IsProcessed without the catch-all arm of the match
IsProcessed_Every(t) == TRUE

\* the variants from_transaction does not return Default::default() for
IsProcessed(t) == t.variant \in {"GenesisTransaction", "UserTransaction"}

\* where the run continues once a loop is over: the loops over writesets are
\* skipped when there is no change, the loop over events when there is none
EventsStart(t) == IF Len(t.events) > 0 THEN <<"events", 1>> ELSE <<"return", 0>>
ResourcesStart(t) == IF Len(t.changes) > 0 THEN <<"resources", 1>> ELSE EventsStart(t)
TableItemsStart(t) == IF Len(t.changes) > 0 THEN <<"table_items", 1>> ELSE EventsStart(t)

Goto(pos) == pc' = pos[1] /\ idx' = pos[2]

\* a panic unwinds the call: nothing is returned
Panic(msg) ==
    /\ pc' = "panicked"
    /\ panic' = Some(msg)
    /\ UNCHANGED <<idx, result>>

\* variant of ExtendSupplyLookup that keeps the value a handle already has
ExtendSupplyLookup_KeepFirst(lookup, item) == lookup @@ item

\* variant of ExtendSupplyLookup that drops the item
ExtendSupplyLookup_Drop(lookup, item) == lookup

\* supply_lookup.extend(item)
ExtendSupplyLookup(lookup, item) == MapExtend(lookup, item)

\* variant of InsertCurrentCoinBalance that keeps the entry already there
\* (entry().or_insert)
InsertCurrentCoinBalance_KeepFirst(balances, coin_balance, current_coin_balance) ==
    balances @@ (<<coin_balance.owner_address, coin_balance.coin_type>>
                    :> current_coin_balance)

\* current_coin_balances.insert((owner_address, coin_type), current_coin_balance)
InsertCurrentCoinBalance(balances, coin_balance, current_coin_balance) ==
    MapInsert(balances, <<coin_balance.owner_address, coin_balance.coin_type>>,
              current_coin_balance)

\* variant of ExtendEventToCoinType that keeps the coin type a guid already
\* has
ExtendEventToCoinType_KeepFirst(mapping, event_to_coin_type) == mapping @@ event_to_coin_type

\* all_event_to_coin_type.extend(event_to_coin_type)
ExtendEventToCoinType(mapping, event_to_coin_type) == MapExtend(mapping, event_to_coin_type)

\* no worker, and nothing stored
NoWorkers ==
    /\ worker_txn = <<>>
    /\ worker_now = <<>>
    /\ overflow_checks = FALSE
    /\ call = <<>>
    /\ maps = <<>>
    /\ stored = EmptyMap
    /\ applied = <<>>

Init ==
    /\ txn \in Transactions
    /\ now \in (IF txn \in PayloadTxns THEN Clock ELSE {0})
    /\ pc = "match"
    /\ idx = 0
    /\ entry_function_id_str = None
    /\ coin_activities = <<>>
    /\ coin_infos = <<>>
    /\ coin_balances = <<>>
    /\ current_coin_balances = EmptyMap
    /\ all_event_to_coin_type = EmptyMap
    /\ supply_lookup = EmptyMap
    /\ result = None
    /\ panic = None
    /\ NoWorkers

\* the match on the transaction, entry_function_id_str and the gas event
MatchTransaction ==
    /\ pc = "match"
    /\ UNCHANGED wvars
    /\ UNCHANGED <<txn, now, coin_infos, coin_balances, current_coin_balances,
                   all_event_to_coin_type, supply_lookup>>
    /\ IF ~IsProcessed(txn)
       THEN /\ result' = Some(DefaultOutput)
            /\ pc' = "done"
            /\ UNCHANGED <<idx, entry_function_id_str, coin_activities, panic>>
       ELSE IF IsSome(maybe_user_request(txn))
       THEN LET user_request == Unwrap(maybe_user_request(txn))
            IN /\ entry_function_id_str' = EntryFunctionIdStr(user_request.payload)
               /\ \E burned \in aptos_coin_burned(txn) :
                    IF burned.tag = "Err"
                    THEN /\ Panic([kind |-> burned.err])
                         /\ UNCHANGED coin_activities
                    ELSE /\ coin_activities' =
                                Append(coin_activities, get_gas_event(txn, burned.val, now))
                         /\ Goto(TableItemsStart(txn))
                         /\ UNCHANGED <<result, panic>>
       ELSE /\ Goto(TableItemsStart(txn))
            /\ UNCHANGED <<entry_function_id_str, coin_activities, result, panic>>

\* variant of ScanTableItem that takes every change for a table item and
\* fails on one that is none
ScanTableItem_Strict ==
    /\ pc = "table_items"
    /\ UNCHANGED wvars
    /\ UNCHANGED <<txn, now, entry_function_id_str, coin_activities, coin_infos,
                   coin_balances, current_coin_balances, all_event_to_coin_type>>
    /\ LET wsc == txn.changes[idx]
           next == IF idx < Len(txn.changes) THEN <<"table_items", idx + 1>>
                   ELSE ResourcesStart(txn)
       IN IF wsc.kind = "WriteTableItem"
          THEN LET item == get_aggregator_supply_lookup(wsc)
               IN IF item.tag = "Err"
                  THEN Panic([kind |-> item.err]) /\ UNCHANGED supply_lookup
                  ELSE /\ supply_lookup' = ExtendSupplyLookup(supply_lookup, item.val)
                       /\ Goto(next)
                       /\ UNCHANGED <<result, panic>>
          ELSE Panic([kind |-> "DecodeError"]) /\ UNCHANGED supply_lookup

\* one iteration of the first loop over writesets
ScanTableItem ==
    /\ pc = "table_items"
    /\ UNCHANGED wvars
    /\ UNCHANGED <<txn, now, entry_function_id_str, coin_activities, coin_infos,
                   coin_balances, current_coin_balances, all_event_to_coin_type>>
    /\ LET wsc == txn.changes[idx]
           next == IF idx < Len(txn.changes) THEN <<"table_items", idx + 1>>
                   ELSE ResourcesStart(txn)
       IN IF wsc.kind = "WriteTableItem"
          THEN LET item == get_aggregator_supply_lookup(wsc)
               IN IF item.tag = "Err"
                  THEN Panic([kind |-> item.err]) /\ UNCHANGED supply_lookup
                  ELSE /\ supply_lookup' = ExtendSupplyLookup(supply_lookup, item.val)
                       /\ Goto(next)
                       /\ UNCHANGED <<result, panic>>
          ELSE Goto(next) /\ UNCHANGED <<supply_lookup, result, panic>>

\* one iteration of the second loop over writesets
ScanResource ==
    /\ pc = "resources"
    /\ UNCHANGED wvars
    /\ UNCHANGED <<txn, now, entry_function_id_str, coin_activities, supply_lookup>>
    /\ LET wsc == txn.changes[idx]
           next == IF idx < Len(txn.changes) THEN <<"resources", idx + 1>>
                   ELSE EventsStart(txn)
           info == CoinInfo_from_write_resource(wsc, TxnVersion(txn), supply_lookup)
           balance == CoinBalance_from_write_resource(wsc, TxnVersion(txn))
       IN IF wsc.kind # "WriteResource"
          THEN /\ Goto(next)
               /\ UNCHANGED <<coin_infos, coin_balances, current_coin_balances,
                              all_event_to_coin_type, result, panic>>
          ELSE IF info.tag = "Err"
          THEN /\ Panic([kind |-> info.err])
               /\ UNCHANGED <<coin_infos, coin_balances, current_coin_balances,
                              all_event_to_coin_type>>
          ELSE IF balance.tag = "Err"
          THEN /\ Panic([kind |-> balance.err])
               /\ UNCHANGED <<coin_infos, coin_balances, current_coin_balances,
                              all_event_to_coin_type>>
          ELSE /\ coin_infos' = IF IsSome(info.val)
                                THEN Append(coin_infos, Unwrap(info.val))
                                ELSE coin_infos
               /\ IF IsSome(balance.val)
                  THEN LET data == Unwrap(balance.val)
                       IN /\ current_coin_balances' =
                                InsertCurrentCoinBalance(current_coin_balances,
                                    data.coin_balance, data.current_coin_balance)
                          /\ coin_balances' = Append(coin_balances, data.coin_balance)
                          /\ all_event_to_coin_type' =
                                ExtendEventToCoinType(all_event_to_coin_type,
                                                      data.event_to_coin_type)
                  ELSE UNCHANGED <<coin_balances, current_coin_balances,
                                   all_event_to_coin_type>>
               /\ Goto(next)
               /\ UNCHANGED <<result, panic>>

\* one iteration of the loop over events
ScanEvent ==
    /\ pc = "events"
    /\ UNCHANGED wvars
    /\ UNCHANGED <<txn, now, entry_function_id_str, coin_infos, coin_balances,
                   current_coin_balances, all_event_to_coin_type, supply_lookup>>
    /\ LET event == txn.events[idx]
           event_type == event.typ
           next == IF idx < Len(txn.events) THEN <<"events", idx + 1>>
                   ELSE <<"return", 0>>
           parsed == CoinEvent_from_event(event_type, event.data, TxnVersion(txn))
       IN IF parsed.tag = "Err"
          THEN Panic([kind |-> parsed.err]) /\ UNCHANGED coin_activities
          ELSE IF IsSome(parsed.val)
          THEN LET activity == from_parsed_event(event_type, event, Unwrap(parsed.val),
                                   TxnVersion(txn), all_event_to_coin_type,
                                   entry_function_id_str, now)
               IN IF activity.tag = "Err"
                  THEN Panic(activity.err) /\ UNCHANGED coin_activities
                  ELSE /\ coin_activities' = Append(coin_activities, activity.val)
                       /\ Goto(next)
                       /\ UNCHANGED <<result, panic>>
          ELSE Goto(next) /\ UNCHANGED <<coin_activities, result, panic>>

\* the returned tuple
Return ==
    /\ pc = "return"
    /\ UNCHANGED wvars
    /\ result' = Some([coin_activities |-> coin_activities,
                       coin_infos |-> coin_infos,
                       coin_balances |-> coin_balances,
                       current_coin_balances |-> current_coin_balances])
    /\ pc' = "done"
    /\ UNCHANGED <<txn, now, idx, panic>>
    /\ UNCHANGED locals

Next == MatchTransaction \/ ScanTableItem \/ ScanResource \/ ScanEvent \/ Return

Spec == Init /\ [][Next]_vars

\* ---------------------------------------------------------------- workers

\* the workers that call from_transaction side by side
Workers == {1, 2}

\* the transactions the workers are given, each at each of two versions
WorkerTxnsAt(ver) ==
    {Transaction("UserTransaction", ver, TRUE, 2, "0xA", 3, ScriptPayload,
                 <<StoreAX>>, <<DepositA7>>),
     Transaction("UserTransaction", ver, FALSE, 2, "0xA", 3, ScriptPayload,
                 <<CoinStoreWrite("0xA", "X", 200, Guid("0xA", 7), Guid("0xA", 8))>>, <<>>),
     Transaction("GenesisTransaction", ver, TRUE, 0, "0xA", 0, ScriptPayload,
                 <<>>, <<DepositA7>>),
     Transaction("GenesisTransaction", ver, TRUE, 0, "0xA", 0, ScriptPayload,
                 <<WriteTableItem(42, "u128", <<42>>)>>, <<>>),
     Transaction("GenesisTransaction", ver, TRUE, 0, "0xA", 0, ScriptPayload,
                 <<CoinInfoWrite("0xA", "X", AggregatorSupply(42))>>, <<>>),
     Transaction("UserTransaction", ver, TRUE, 2, "0xA", 3, ScriptPayload,
                 <<MalformedWrite("0xA", COIN_STORE_TYPE, "X")>>, <<DepositA7>>),
     Transaction("GenesisTransaction", ver, TRUE, 0, "0xA", 0, ScriptPayload,
                 <<WriteTableItem(42, "u128", None)>>, <<>>),
     Transaction("GenesisTransaction", ver, TRUE, 0, "0xA", 0, ScriptPayload,
                 <<StoreAX>>, <<Event(DEPOSIT_EVENT_TYPE, Guid("0xA", 7), 0, GarbageData)>>),
     Transaction("UserTransaction", ver, TRUE, U64Max, "0xA", 2, ScriptPayload,
                 <<StoreAX>>, <<>>),
     Transaction("BlockMetadataTransaction", ver, TRUE, 0, "0xA", 0, ScriptPayload,
                 <<StoreAX>>, <<DepositA7>>)}
WorkerTxns == WorkerTxnsAt(1) \cup WorkerTxnsAt(2)

\* variant of CallMaps in which the two lookups are one pair, shared by
\* every call
CallMaps_Shared(w) == 1

\* the lookups of a call: all_event_to_coin_type and supply_lookup are
\* locals of from_transaction, every call has its own
CallMaps(w) == w

\* what the build makes of an overflowing product
BuildOutcome(outcomes) ==
    IF Cardinality(outcomes) = 1 THEN outcomes
    ELSE {o \in outcomes : (o.tag = "Err") = overflow_checks}

\* the locals of a call that has not started
NewCall ==
    [pc |-> "match", idx |-> 0, entry_function_id_str |-> None,
     coin_activities |-> <<>>, coin_infos |-> <<>>, coin_balances |-> <<>>,
     current_coin_balances |-> EmptyMap, result |-> None, panic |-> None]
NewMaps == [all_event_to_coin_type |-> EmptyMap, supply_lookup |-> EmptyMap]

\* two workers, each with a transaction: the same one, or transactions of
\* different versions
InitWorkers ==
    /\ worker_txn \in [Workers -> WorkerTxns]
    /\ worker_txn[1] = worker_txn[2] \/ worker_txn[1].version # worker_txn[2].version
    /\ worker_now \in [Workers -> Clock]
    /\ worker_now[1] = 0
    /\ overflow_checks \in BOOLEAN
    /\ call = [w \in Workers |-> NewCall]
    /\ maps = [w \in Workers |-> NewMaps]
    /\ stored = EmptyMap
    /\ applied = <<>>
    /\ txn = None
    /\ now = 0
    /\ pc = "idle"
    /\ idx = 0
    /\ entry_function_id_str = None
    /\ coin_activities = <<>>
    /\ coin_infos = <<>>
    /\ coin_balances = <<>>
    /\ current_coin_balances = EmptyMap
    /\ all_event_to_coin_type = EmptyMap
    /\ supply_lookup = EmptyMap
    /\ result = None
    /\ panic = None

\* a panic unwinds the call of worker w
WorkerPanic(w, msg) == [call[w] EXCEPT !.pc = "panicked", !.panic = Some(msg)]

\* the call of worker w, moved to position pos
WorkerGoto(c, pos) == [c EXCEPT !.pc = pos[1], !.idx = pos[2]]

\* worker w: the creation of the locals, the match on the transaction,
\* entry_function_id_str and the gas event
WorkerMatchTransaction(w) ==
    /\ call[w].pc = "match"
    /\ UNCHANGED <<cvars, worker_txn, worker_now, overflow_checks, stored, applied>>
    /\ LET t == worker_txn[w]
       IN IF ~IsProcessed(t)
          THEN /\ call' = [call EXCEPT ![w] = [@ EXCEPT !.result = Some(DefaultOutput),
                                                        !.pc = "done"]]
               /\ maps' = [maps EXCEPT ![CallMaps(w)] = NewMaps]
          ELSE IF IsSome(maybe_user_request(t))
          THEN LET user_request == Unwrap(maybe_user_request(t))
                   entry_fn == EntryFunctionIdStr(user_request.payload)
               IN \E burned \in BuildOutcome(aptos_coin_burned(t)) :
                    /\ maps' = [maps EXCEPT ![CallMaps(w)] = NewMaps]
                    /\ IF burned.tag = "Err"
                       THEN call' = [call EXCEPT ![w] =
                                [WorkerPanic(w, [kind |-> burned.err])
                                    EXCEPT !.entry_function_id_str = entry_fn]]
                       ELSE call' = [call EXCEPT ![w] =
                                WorkerGoto([@ EXCEPT
                                    !.entry_function_id_str = entry_fn,
                                    !.coin_activities = Append(@,
                                        get_gas_event(t, burned.val, worker_now[w]))],
                                    TableItemsStart(t))]
          ELSE /\ call' = [call EXCEPT ![w] = WorkerGoto(@, TableItemsStart(t))]
               /\ maps' = [maps EXCEPT ![CallMaps(w)] = NewMaps]

\* variant of WorkerScanTableItem that skips a table item it cannot decode
WorkerScanTableItem_Lenient(w) ==
    /\ call[w].pc = "table_items"
    /\ UNCHANGED <<cvars, worker_txn, worker_now, overflow_checks, stored, applied>>
    /\ LET t == worker_txn[w]
           wsc == t.changes[call[w].idx]
           next == IF call[w].idx < Len(t.changes)
                   THEN <<"table_items", call[w].idx + 1>>
                   ELSE ResourcesStart(t)
       IN IF wsc.kind = "WriteTableItem"
          THEN LET item == get_aggregator_supply_lookup(wsc)
               IN IF item.tag = "Err"
                  THEN /\ call' = [call EXCEPT ![w] = WorkerGoto(@, next)]
                       /\ UNCHANGED maps
                  ELSE /\ maps' = [maps EXCEPT ![CallMaps(w)].supply_lookup =
                                        ExtendSupplyLookup(@, item.val)]
                       /\ call' = [call EXCEPT ![w] = WorkerGoto(@, next)]
          ELSE /\ call' = [call EXCEPT ![w] = WorkerGoto(@, next)]
               /\ UNCHANGED maps

\* worker w: one iteration of the first loop over writesets
WorkerScanTableItem(w) ==
    /\ call[w].pc = "table_items"
    /\ UNCHANGED <<cvars, worker_txn, worker_now, overflow_checks, stored, applied>>
    /\ LET t == worker_txn[w]
           wsc == t.changes[call[w].idx]
           next == IF call[w].idx < Len(t.changes)
                   THEN <<"table_items", call[w].idx + 1>>
                   ELSE ResourcesStart(t)
       IN IF wsc.kind = "WriteTableItem"
          THEN LET item == get_aggregator_supply_lookup(wsc)
               IN IF item.tag = "Err"
                  THEN /\ call' = [call EXCEPT ![w] = WorkerPanic(w, [kind |-> item.err])]
                       /\ UNCHANGED maps
                  ELSE /\ maps' = [maps EXCEPT ![CallMaps(w)].supply_lookup =
                                        ExtendSupplyLookup(@, item.val)]
                       /\ call' = [call EXCEPT ![w] = WorkerGoto(@, next)]
          ELSE /\ call' = [call EXCEPT ![w] = WorkerGoto(@, next)]
               /\ UNCHANGED maps

\* worker w: one iteration of the second loop over writesets
WorkerScanResource(w) ==
    /\ call[w].pc = "resources"
    /\ UNCHANGED <<cvars, worker_txn, worker_now, overflow_checks, stored, applied>>
    /\ LET t == worker_txn[w]
           wsc == t.changes[call[w].idx]
           next == IF call[w].idx < Len(t.changes)
                   THEN <<"resources", call[w].idx + 1>>
                   ELSE EventsStart(t)
           info == CoinInfo_from_write_resource(wsc, TxnVersion(t),
                        maps[CallMaps(w)].supply_lookup)
           balance == CoinBalance_from_write_resource(wsc, TxnVersion(t))
       IN IF wsc.kind # "WriteResource"
          THEN /\ call' = [call EXCEPT ![w] = WorkerGoto(@, next)]
               /\ UNCHANGED maps
          ELSE IF info.tag = "Err"
          THEN /\ call' = [call EXCEPT ![w] = WorkerPanic(w, [kind |-> info.err])]
               /\ UNCHANGED maps
          ELSE IF balance.tag = "Err"
          THEN /\ call' = [call EXCEPT ![w] = WorkerPanic(w, [kind |-> balance.err])]
               /\ UNCHANGED maps
          ELSE LET with_info ==
                       IF IsSome(info.val)
                       THEN [call[w] EXCEPT !.coin_infos = Append(@, Unwrap(info.val))]
                       ELSE call[w]
               IN IF IsSome(balance.val)
                  THEN LET data == Unwrap(balance.val)
                       IN /\ call' = [call EXCEPT ![w] =
                                WorkerGoto([with_info EXCEPT
                                    !.current_coin_balances =
                                        InsertCurrentCoinBalance(@, data.coin_balance,
                                            data.current_coin_balance),
                                    !.coin_balances = Append(@, data.coin_balance)],
                                    next)]
                          /\ maps' = [maps EXCEPT ![CallMaps(w)].all_event_to_coin_type =
                                        ExtendEventToCoinType(@, data.event_to_coin_type)]
                  ELSE /\ call' = [call EXCEPT ![w] = WorkerGoto(with_info, next)]
                       /\ UNCHANGED maps

\* worker w: one iteration of the loop over events
WorkerScanEvent(w) ==
    /\ call[w].pc = "events"
    /\ UNCHANGED <<cvars, worker_txn, worker_now, overflow_checks, stored, applied, maps>>
    /\ LET t == worker_txn[w]
           event == t.events[call[w].idx]
           event_type == event.typ
           next == IF call[w].idx < Len(t.events)
                   THEN <<"events", call[w].idx + 1>>
                   ELSE <<"return", 0>>
           parsed == CoinEvent_from_event(event_type, event.data, TxnVersion(t))
       IN IF parsed.tag = "Err"
          THEN call' = [call EXCEPT ![w] = WorkerPanic(w, [kind |-> parsed.err])]
          ELSE IF IsSome(parsed.val)
          THEN LET activity == from_parsed_event(event_type, event, Unwrap(parsed.val),
                                   TxnVersion(t),
                                   maps[CallMaps(w)].all_event_to_coin_type,
                                   call[w].entry_function_id_str, worker_now[w])
               IN IF activity.tag = "Err"
                  THEN call' = [call EXCEPT ![w] = WorkerPanic(w, activity.err)]
                  ELSE call' = [call EXCEPT ![w] =
                            WorkerGoto([@ EXCEPT !.coin_activities =
                                            Append(@, activity.val)], next)]
          ELSE call' = [call EXCEPT ![w] = WorkerGoto(@, next)]

\* worker w: the returned tuple
WorkerReturn(w) ==
    /\ call[w].pc = "return"
    /\ UNCHANGED <<cvars, worker_txn, worker_now, overflow_checks, stored, applied, maps>>
    /\ call' = [call EXCEPT ![w] = [@ EXCEPT
            !.result = Some([coin_activities |-> call[w].coin_activities,
                             coin_infos |-> call[w].coin_infos,
                             coin_balances |-> call[w].coin_balances,
                             current_coin_balances |-> call[w].current_coin_balances]),
            !.pc = "done"]]

\* the write of one current coin balance: the record replaces the stored
\* one unless the stored one is of a higher version
ConditionalUpsert(table, key, record) ==
    IF key \in DOMAIN table
        /\ table[key].last_transaction_version > record.last_transaction_version
    THEN table
    ELSE MapInsert(table, key, record)

\* the pipeline writes a current coin balance that worker w returned; the
\* records of the workers are written in any order
Upsert(w) ==
    /\ call[w].pc = "done"
    /\ UNCHANGED <<cvars, worker_txn, worker_now, overflow_checks, call, maps>>
    /\ \E key \in DOMAIN Unwrap(call[w].result).current_coin_balances :
        /\ \A j \in 1..Len(applied) : applied[j] # <<w, key>>
        /\ stored' = ConditionalUpsert(stored, key,
                        Unwrap(call[w].result).current_coin_balances[key])
        /\ applied' = Append(applied, <<w, key>>)

NextWorkers ==
    \/ \E w \in Workers : WorkerMatchTransaction(w)
    \/ \E w \in Workers : WorkerScanTableItem(w)
    \/ \E w \in Workers : WorkerScanResource(w)
    \/ \E w \in Workers : WorkerScanEvent(w)
    \/ \E w \in Workers : WorkerReturn(w)
    \/ \E w \in Workers : Upsert(w)

SpecWorkers == InitWorkers /\ [][NextWorkers]_vars

\* ------------------------------------------------------------- properties

\* the event types the event classifier recognizes
Recognized(e) == e.typ \in {"0x1::coin::WithdrawEvent", "0x1::coin::DepositEvent"}
RecognizedIdx(t) == {k \in 1..Len(t.events) : Recognized(t.events[k])}

\* the coin-store writes of a transaction, by position in the change list
IsCoinStore(c) ==
    c.kind = "WriteResource" /\ c.typ = "0x1::coin::CoinStore" /\ c.data.shape = "CoinStore"
CoinStoreIdx(t) == {k \in 1..Len(t.changes) : IsCoinStore(t.changes[k])}
StoreGuids(c) == {c.data.deposit_events, c.data.withdraw_events}
\* the coin-store writes that register guid g
StoresOfGuid(t, g) == {k \in CoinStoreIdx(t) : g \in StoreGuids(t.changes[k])}
\* the recognized events whose guid no coin-store write registers
UnmatchedIdx(t) == {k \in RecognizedIdx(t) : StoresOfGuid(t, t.events[k].guid) = {}}

SetMax(S) == CHOOSE x \in S : \A y \in S : y <= x
SetMin(S) == CHOOSE x \in S : \A y \in S : x <= y

Completed == result # None
Output == Unwrap(result)
IsUser == txn.variant = "UserTransaction"
IsGenesis == txn.variant = "GenesisTransaction"
GasOffset == IF IsUser THEN 1 ELSE 0

\* C1 as stated: for every transaction, Genesis, UserSubmitted or Other, whose
\* extraction completes, the number of returned activities is the number of
\* withdraw or deposit events of the transaction, plus one when it is
\* user-submitted.
C1_CountEveryVariant ==
    Completed =>
        Len(Output.coin_activities) = Cardinality(RecognizedIdx(txn)) + GasOffset

\* C1 as amended: for every Genesis or UserSubmitted transaction whose
\* extraction completes, the number of returned activities is the number of
\* withdraw or deposit events plus one when it is user-submitted; for a
\* transaction of any other variant it is 0, whatever its events.
C1_Count ==
    Completed =>
        Len(Output.coin_activities) =
            IF IsUser \/ IsGenesis
            THEN Cardinality(RecognizedIdx(txn)) + GasOffset
            ELSE 0

\* a user transaction with two recognized events and one other has returned
C1_Witness ==
    /\ Completed
    /\ IsUser
    /\ Len(txn.events) = 2
    /\ Cardinality(RecognizedIdx(txn)) = 2
    /\ Len(Output.coin_activities) = 3

\* the activities of the output that come from events, in order
EventActivities(out) ==
    SelectSeq(out.coin_activities, LAMBDA a : ~a.is_gas_fee)
\* the recognized events of a transaction, in emission order
RecognizedEvents(t) == SelectSeq(t.events, Recognized)
\* the coin-store writes of a transaction, in change order
CoinStoreWrites(t) == SelectSeq(t.changes, IsCoinStore)
\* the signed 64-bit reading of a u64 of the API
Signed(x) == IF x >= Pow2(WordBits - 1) THEN x - Pow2(WordBits) ELSE x

\* C2: a Genesis or UserSubmitted transaction that contains a withdraw or
\* deposit event whose guid is the deposit or withdraw guid of no coin-store
\* write of the transaction never returns anything, the event scan never gets
\* past the first such event, and the MissingCoinType panic is raised at such
\* an event and reports the version, the event's guid and the whole
\* event-to-coin-type map; a MissingCoinType panic is raised on no other event.
C2_MissingCoinType ==
    /\ ((IsUser \/ IsGenesis) /\ UnmatchedIdx(txn) # {}) =>
            /\ result = None
            /\ pc \notin {"return", "done"}
            /\ pc = "events" => idx <= SetMin(UnmatchedIdx(txn))
    /\ (panic # None /\ Unwrap(panic).kind = "MissingCoinType") =>
            /\ pc = "panicked"
            /\ result = None
            /\ idx = SetMin(UnmatchedIdx(txn))
            /\ Unwrap(panic).version = Signed(txn.version)
            /\ Unwrap(panic).guid.addr = txn.events[idx].guid.account_address
            /\ Unwrap(panic).guid.creation_num = Signed(txn.events[idx].guid.creation_number)
            /\ Unwrap(panic).mapping = all_event_to_coin_type
            /\ Cardinality(DOMAIN Unwrap(panic).mapping) =
                    Cardinality(UNION {StoreGuids(txn.changes[k]) : k \in CoinStoreIdx(txn)})

\* the panic is raised at the second event, after a gas activity, an event
\* activity and a coin balance were accumulated, and nothing is returned
C2_Witness ==
    /\ pc = "panicked"
    /\ Unwrap(panic).kind = "MissingCoinType"
    /\ idx = 2
    /\ Len(coin_activities) = 2
    /\ Len(coin_balances) >= 1
    /\ txn.events[2].guid = Guid("0xB", 9)
    /\ result = None

\* the key of the current_coin_balances table a coin-store write belongs to
BalanceKey(c) == <<c.address, c.coin_type>>
\* the last coin-store write, in change order, with the key of write c
LastWriteOfKey(t, key) ==
    t.changes[SetMax({k \in CoinStoreIdx(t) : BalanceKey(t.changes[k]) = key})]

\* C3: in the output of a Genesis or UserSubmitted transaction there is one
\* event activity per withdraw or deposit event, in emission order, and the
\* activity of an event whose guid a coin-store write of the transaction
\* registers has owner = the event's account address, coin type = that of the
\* (last) coin-store write registering the guid, amount = the event's amount,
\* activity type = the event's type name, is_gas_fee = false and the key
\* (version, event account address, event creation number, event sequence
\* number) of the event, the numbers read as signed 64-bit; the current coin
\* balance of that coin store's (owner, coin type) is in the output and
\* carries the balance of the last write to that key.
C3_EventActivity ==
    (Completed /\ (IsUser \/ IsGenesis)) =>
        LET acts == EventActivities(Output)
            evs == RecognizedEvents(txn)
        IN /\ Len(acts) = Len(evs)
           /\ \A j \in 1..Len(evs) :
                LET e == evs[j]
                    a == acts[j]
                    stores == StoresOfGuid(txn, e.guid)
                    w == txn.changes[SetMax(stores)]
                IN /\ stores # {}
                   /\ a.owner_address = e.guid.account_address
                   /\ a.coin_type = w.coin_type
                   /\ a.amount = e.data.amount
                   /\ a.activity_type = e.typ
                   /\ a.is_gas_fee = FALSE
                   /\ a.transaction_version = Signed(txn.version)
                   /\ a.event_account_address = e.guid.account_address
                   /\ a.event_creation_number = Signed(e.guid.creation_number)
                   /\ a.event_sequence_number = Signed(e.sequence_number)
                   /\ BalanceKey(w) \in DOMAIN Output.current_coin_balances
                   /\ Output.current_coin_balances[BalanceKey(w)].amount =
                        LastWriteOfKey(txn, BalanceKey(w)).data.coin_value

\* the round trip of the specification: a coin-store write (A, X, 100) with
\* deposit guid (A, 7), then a deposit of 50 on (A, 7), sequence number 0
C3_Witness ==
    /\ Completed
    /\ IsGenesis
    /\ txn.changes = <<CoinStoreWrite("0xA", "X", 100, Guid("0xA", 7), Guid("0xA", 8))>>
    /\ txn.events = <<Event("0x1::coin::DepositEvent", Guid("0xA", 7), 0, AmountData(50))>>
    /\ Len(Output.coin_activities) = 1
    /\ Output.coin_activities[1].owner_address = "0xA"
    /\ Output.coin_activities[1].coin_type = "X"
    /\ Output.coin_activities[1].amount = 50
    /\ Output.coin_activities[1].activity_type = "0x1::coin::DepositEvent"
    /\ Output.coin_activities[1].is_gas_fee = FALSE
    /\ Output.current_coin_balances[<<"0xA", "X">>].amount = 100

\* C4: in the output of a Genesis or UserSubmitted transaction,
\* current_coin_balances has exactly the (owner, coin type) keys of the
\* transaction's coin-store writes, the entry of a key is the record of the
\* last write to that key in change order, and coin_balances has one record
\* per coin-store write, in change order.
C4_LastWriteWins ==
    (Completed /\ (IsUser \/ IsGenesis)) =>
        LET ws == CoinStoreWrites(txn)
            current == Output.current_coin_balances
        IN /\ Len(Output.coin_balances) = Len(ws)
           /\ \A j \in 1..Len(ws) :
                /\ Output.coin_balances[j].owner_address = ws[j].address
                /\ Output.coin_balances[j].coin_type = ws[j].coin_type
                /\ Output.coin_balances[j].amount = ws[j].data.coin_value
                /\ Output.coin_balances[j].transaction_version = Signed(txn.version)
           /\ DOMAIN current = {BalanceKey(ws[j]) : j \in 1..Len(ws)}
           /\ \A key \in DOMAIN current :
                current[key] =
                    [owner_address |-> key[1],
                     coin_type |-> key[2],
                     amount |-> LastWriteOfKey(txn, key).data.coin_value,
                     last_transaction_version |-> Signed(txn.version)]

\* two writes to (A, X), balance 200 and then 100: two coin balances, one
\* current coin balance, of 100
C4_Witness ==
    /\ Completed
    /\ IsUser
    /\ Len(txn.changes) = 2
    /\ IsCoinStore(txn.changes[1])
    /\ IsCoinStore(txn.changes[2])
    /\ BalanceKey(txn.changes[1]) = <<"0xA", "X">>
    /\ BalanceKey(txn.changes[2]) = <<"0xA", "X">>
    /\ txn.changes[1].data.coin_value = 200
    /\ txn.changes[2].data.coin_value = 100
    /\ Len(Output.coin_balances) = 2
    /\ DOMAIN Output.current_coin_balances = {<<"0xA", "X">>}
    /\ Output.current_coin_balances[<<"0xA", "X">>].amount = 100

\* the positions of the gas-fee activities in a list of activities
GasIdx(acts) == {k \in 1..Len(acts) : acts[k].is_gas_fee}

\* C5: the amount of the gas-fee activity of a user-submitted transaction is
\* gas used times gas unit price, exactly, for all u64 values of the two.
C5_GasAmountExact ==
    (Completed /\ IsUser) =>
        \A k \in GasIdx(Output.coin_activities) :
            Output.coin_activities[k].amount = txn.gas_used * txn.gas_unit_price

\* C6: the output of a user-submitted transaction has exactly one activity
\* with is_gas_fee = true; its creation and sequence number are -1, its owner
\* and event account address are the sender, its coin type is the native gas
\* coin, its activity type is the gas-burn label, and no activity of an event
\* has that activity type; the output of a Genesis transaction has no
\* gas-fee activity.
C6_GasActivity ==
    Completed =>
        LET acts == Output.coin_activities
        IN /\ IsUser =>
                /\ Cardinality(GasIdx(acts)) = 1
                /\ \A k \in GasIdx(acts) :
                    /\ acts[k].event_creation_number = -1
                    /\ acts[k].event_sequence_number = -1
                    /\ acts[k].owner_address = txn.sender
                    /\ acts[k].event_account_address = txn.sender
                    /\ acts[k].coin_type = APTOS_COIN_TYPE
                    /\ acts[k].activity_type = "0x1::aptos_coin::GasBurnEvent"
                    /\ \A j \in (1..Len(acts)) \ GasIdx(acts) :
                            acts[j].activity_type # acts[k].activity_type
           /\ IsGenesis => GasIdx(acts) = {}

\* a user transaction of sender B has returned its gas-fee activity and the
\* activity of a deposit event
C6_Witness ==
    /\ Completed
    /\ IsUser
    /\ txn.sender = "0xB"
    /\ Len(Output.coin_activities) = 2
    /\ Output.coin_activities[1].is_gas_fee
    /\ Output.coin_activities[1].event_creation_number = -1
    /\ Output.coin_activities[1].owner_address = "0xB"
    /\ ~Output.coin_activities[2].is_gas_fee

\* C7: the output of a user-submitted transaction has a gas-fee activity, and
\* its is_transaction_success is the transaction's success flag.
C7_GasSuccessFlag ==
    (Completed /\ IsUser) =>
        /\ GasIdx(Output.coin_activities) # {}
        /\ \A k \in GasIdx(Output.coin_activities) :
                Output.coin_activities[k].is_transaction_success = txn.success

\* a failed user transaction has returned a gas-fee activity that is marked
\* as failed
C7_Witness ==
    /\ Completed
    /\ IsUser
    /\ txn.success = FALSE
    /\ Len(Output.coin_activities) >= 1
    /\ Output.coin_activities[1].is_gas_fee
    /\ Output.coin_activities[1].is_transaction_success = FALSE

\* the primary key of a coin activity
ActivityKey(a) ==
    <<a.transaction_version, a.event_account_address, a.event_creation_number,
      a.event_sequence_number>>
\* what identifies an event on chain
EventId(e) == <<e.guid.account_address, e.guid.creation_number, e.sequence_number>>

\* C8: in the output of one transaction the key of the gas-fee activity is
\* the key of no activity of an event, for every u64 creation number and
\* sequence number of the event; and the activities of two events that
\* differ in (account, creation number, sequence number) have different keys.
C8_KeysDistinct ==
    (Completed /\ (IsUser \/ IsGenesis)) =>
        LET acts == Output.coin_activities
            evacts == EventActivities(Output)
            evs == RecognizedEvents(txn)
        IN /\ \A g \in GasIdx(acts) : \A j \in (1..Len(acts)) \ GasIdx(acts) :
                ActivityKey(acts[g]) # ActivityKey(acts[j])
           /\ \A i, j \in 1..Len(evacts) :
                EventId(evs[i]) # EventId(evs[j]) =>
                    ActivityKey(evacts[i]) # ActivityKey(evacts[j])

\* the coin-info writes and the aggregator table items of a transaction
IsCoinInfo(c) ==
    c.kind = "WriteResource" /\ c.typ = "0x1::coin::CoinInfo" /\ c.data.shape = "CoinInfo"
IsAggregatorItem(c) ==
    c.kind = "WriteTableItem" /\ c.value_type = "u128" /\ Len(c.value) = 1
\* the table items of a transaction that declare aggregator handle h
Declarations(t, h) ==
    {k \in 1..Len(t.changes) : IsAggregatorItem(t.changes[k]) /\ t.changes[k].handle = h}
\* nothing in the transaction makes extraction fail: every payload has the
\* shape of its type, every withdraw or deposit event has its coin store, and
\* the gas product fits the word
NothingFatal(t) ==
    /\ \A k \in 1..Len(t.changes) :
        /\ t.changes[k].kind = "WriteResource" =>
                t.changes[k].data.shape # "Garbage"
        /\ t.changes[k].kind = "WriteTableItem" =>
                (t.changes[k].value_type = "u128" => Len(t.changes[k].value) = 1)
    /\ \A k \in 1..Len(t.events) : t.events[k].data.shape # "Garbage"
    /\ UnmatchedIdx(t) = {}
    /\ t.gas_used * t.gas_unit_price < Pow2(WordBits)

\* C9: the output of a Genesis or UserSubmitted transaction has one coin
\* info per coin-info write, in change order; the supply of a coin info whose
\* write refers to an aggregator handle is the value of the (last) table item
\* of the transaction that declares the handle, wherever that table item is
\* in the change list, and it is absent, not zero, when no table item of the
\* transaction declares it; a direct supply is recorded as it is; and a
\* transaction fails for no undeclared handle.
C9_SupplyResolution ==
    /\ (Completed /\ (IsUser \/ IsGenesis)) =>
        LET infos == SelectSeq(txn.changes, IsCoinInfo)
        IN /\ Len(Output.coin_infos) = Len(infos)
           /\ \A j \in 1..Len(infos) :
                LET c == infos[j]
                    r == Output.coin_infos[j]
                IN /\ r.coin_type = c.coin_type
                   /\ c.data.supply.tag = "Integer" => r.supply = <<c.data.supply.value>>
                   /\ c.data.supply.tag = "Aggregator" =>
                        LET decl == Declarations(txn, c.data.supply.handle)
                        IN IF decl # {}
                           THEN r.supply = <<txn.changes[SetMax(decl)].value[1]>>
                           ELSE r.supply = <<>> /\ r.supply # <<0>>
    /\ NothingFatal(txn) => (panic = None /\ pc # "panicked")

\* a coin-info write referring to handle 42 and, after it in the change
\* list, the table item declaring 42 for handle 42: the supply is 42
C9_Witness ==
    /\ Completed
    /\ txn.changes = <<CoinInfoWrite("0xA", "X", AggregatorSupply(42)),
                       WriteTableItem(42, "u128", <<42>>)>>
    /\ Len(Output.coin_infos) = 1
    /\ Output.coin_infos[1].supply = <<42>>

\* the fully-qualified name of the entry function of a payload
FullName(payload) ==
    payload.function.address \o <<":", ":">> \o payload.function.module
        \o <<":", ":">> \o payload.function.name
\* C10: once the payload has been matched, the entry function id is the
\* fully-qualified function name when the transaction is user-submitted, its
\* payload is an entry-function call and the name has at most 100 characters,
\* the first 100 characters of the name when it has more, and absent when the
\* payload is no entry-function call or the transaction is not
\* user-submitted; every activity of an event in the output carries it.
C10_EntryFunctionId ==
    LET expected ==
            IF IsUser /\ txn.payload.kind = "EntryFunctionPayload"
            THEN IF Len(FullName(txn.payload)) <= 100
                 THEN <<FullName(txn.payload)>>
                 ELSE <<[j \in 1..100 |-> FullName(txn.payload)[j]]>>
            ELSE <<>>
    IN /\ pc # "match" => entry_function_id_str = expected
       /\ Completed =>
            \A k \in (1..Len(Output.coin_activities)) \ GasIdx(Output.coin_activities) :
                Output.coin_activities[k].entry_function_id_str = expected

\* an entry function id of 102 characters is recorded with 100 characters on
\* the activity of a deposit event
C10_Witness ==
    /\ Completed
    /\ IsUser
    /\ txn.payload.kind = "EntryFunctionPayload"
    /\ Len(FullName(txn.payload)) = 102
    /\ Len(Output.coin_activities) = 2
    /\ Len(Output.coin_activities[2].entry_function_id_str) = 1
    /\ Len(Output.coin_activities[2].entry_function_id_str[1]) = 100

\* C11: a transaction that is neither Genesis nor UserSubmitted never
\* panics, whatever changes and events it carries, and what it returns is
\* four empty collections: no activities, no coin infos, no coin balances,
\* no current coin balances.
C11_OtherVariantEmpty ==
    ~(IsUser \/ IsGenesis) =>
        /\ panic = None
        /\ pc \in {"match", "done"}
        /\ pc = "done" =>
            /\ Completed
            /\ Output.coin_activities = <<>>
            /\ Output.coin_infos = <<>>
            /\ Output.coin_balances = <<>>
            /\ DOMAIN Output.current_coin_balances = {}

\* a block metadata transaction with two coin-store writes and a deposit
\* event that no coin store registers has returned
C11_Witness ==
    /\ txn.variant = "BlockMetadataTransaction"
    /\ Len(txn.changes) = 2
    /\ CoinStoreIdx(txn) = {1, 2}
    /\ UnmatchedIdx(txn) # {}
    /\ Completed
    /\ Output.coin_balances = <<>>

\* the aggregator handles the table items of a transaction declare
DeclaredHandles(t) ==
    {t.changes[k].handle : k \in {j \in 1..Len(t.changes) : IsAggregatorItem(t.changes[j])}}

\* C17: once the pass over table items is over, the aggregator lookup of a
\* Genesis or UserSubmitted transaction has exactly the handles its table
\* items declare, each with the value of the last table item, in scan order,
\* that declares it; and a coin info recorded from a write that refers to a
\* handle declared several times has that last value as its supply.
C17_LastDeclarationWins ==
    (IsProcessed(txn) /\ pc \in {"resources", "events", "return", "done"}) =>
        /\ DOMAIN supply_lookup = DeclaredHandles(txn)
        /\ \A h \in DeclaredHandles(txn) :
            supply_lookup[h] = txn.changes[SetMax(Declarations(txn, h))].value[1]
        /\ LET infos == SelectSeq(txn.changes, IsCoinInfo)
           IN \A j \in 1..Len(coin_infos) :
                (/\ infos[j].data.supply.tag = "Aggregator"
                 /\ Cardinality(Declarations(txn, infos[j].data.supply.handle)) > 1) =>
                    coin_infos[j].supply =
                        <<txn.changes[SetMax(Declarations(txn,
                            infos[j].data.supply.handle))].value[1]>>

\* handle 42 is declared with 42 and then with 7, and the coin info that
\* refers to it has supply 7
C17_Witness ==
    /\ Completed
    /\ txn.changes = <<WriteTableItem(42, "u128", <<42>>),
                       WriteTableItem(42, "u128", <<7>>),
                       CoinInfoWrite("0xA", "X", AggregatorSupply(42))>>
    /\ supply_lookup = (42 :> 7)
    /\ Output.coin_infos[1].supply = <<7>>

\* the key under which the event-to-coin-type map holds a guid of the API
GuidKey(g) == [addr |-> g.account_address, creation_num |-> Signed(g.creation_number)]
\* the coin-store writes that register a guid with the map key of g
StoresOfKey(t, g) ==
    {k \in CoinStoreIdx(t) : \E h \in StoreGuids(t.changes[k]) : GuidKey(h) = GuidKey(g)}
\* the coin-info writes of a transaction, by position in the change list
CoinInfoIdx(t) == {k \in 1..Len(t.changes) : IsCoinInfo(t.changes[k])}

\* C18: the three scans of a Genesis or UserSubmitted transaction are
\* complete passes in the order table items, resources, events. While table
\* items are scanned no resource and no event has been read; when resources
\* are scanned the aggregator lookup already covers every table item of the
\* transaction, so a coin-info write resolves a handle whose table item
\* comes after it in the change list; when events are scanned the
\* event-to-coin-type map already covers every coin-store write of the
\* transaction, with, for a guid two writes register, the coin type of the
\* later write, and that is the coin type of every event activity.
C18_CompletePasses ==
    IsProcessed(txn) =>
        /\ pc = "table_items" =>
            /\ coin_infos = <<>>
            /\ coin_balances = <<>>
            /\ DOMAIN all_event_to_coin_type = {}
            /\ Len(coin_activities) = GasOffset
        /\ pc = "resources" =>
            /\ DOMAIN supply_lookup = DeclaredHandles(txn)
            /\ Len(coin_activities) = GasOffset
        /\ \A k \in CoinInfoIdx(txn) :
            LET j == Cardinality({i \in CoinInfoIdx(txn) : i <= k})
                supply == txn.changes[k].data.supply
            IN (/\ j <= Len(coin_infos)
                /\ supply.tag = "Aggregator"
                /\ \E d \in Declarations(txn, supply.handle) : d > k) =>
                    coin_infos[j].supply # <<>>
        /\ pc \in {"events", "return", "done"} =>
            /\ Len(coin_infos) = Cardinality(CoinInfoIdx(txn))
            /\ Len(coin_balances) = Cardinality(CoinStoreIdx(txn))
            /\ DOMAIN all_event_to_coin_type =
                    {GuidKey(g) : g \in UNION {StoreGuids(txn.changes[k]) :
                                                k \in CoinStoreIdx(txn)}}
            /\ \A k \in CoinStoreIdx(txn) : \A g \in StoreGuids(txn.changes[k]) :
                    all_event_to_coin_type[GuidKey(g)] =
                        txn.changes[SetMax(StoresOfKey(txn, g))].coin_type
            /\ LET evs == RecognizedEvents(txn)
               IN \A j \in 1..(Len(coin_activities) - GasOffset) :
                    /\ StoresOfKey(txn, evs[j].guid) # {}
                    /\ coin_activities[j + GasOffset].coin_type =
                        txn.changes[SetMax(StoresOfKey(txn, evs[j].guid))].coin_type

\* two coin-store writes, of coin X and then of coin Y, register guid (A, 7),
\* and the deposit on (A, 7) has become an activity of coin Y
C18_Witness ==
    /\ Completed
    /\ IsProcessed(txn)
    /\ CoinStoreIdx(txn) = {1, 2}
    /\ txn.changes[1].coin_type = "X"
    /\ txn.changes[2].coin_type = "Y"
    /\ Guid("0xA", 7) \in StoreGuids(txn.changes[1]) \cap StoreGuids(txn.changes[2])
    /\ txn.events = <<DepositA7>>
    /\ EventActivities(Output)[1].coin_type = "Y"

\* C19: in the output of a Genesis or UserSubmitted transaction every
\* activity of an event has is_transaction_success = true, also when the
\* transaction failed, and carries the entry function id of the transaction;
\* the gas-fee activity has the transaction's success flag and no entry
\* function id, also when the payload is an entry-function call; and the
\* gas-fee activity, when there is one, is the first activity, followed by
\* the activities of the events in emission order.
C19_FlagsAndOrder ==
    (Completed /\ IsProcessed(txn)) =>
        LET acts == Output.coin_activities
            evs == RecognizedEvents(txn)
        IN /\ GasIdx(acts) = 1..GasOffset
           /\ Len(acts) = GasOffset + Len(evs)
           /\ \A k \in GasIdx(acts) :
                /\ acts[k].is_transaction_success = txn.success
                /\ acts[k].entry_function_id_str = <<>>
           /\ \A j \in 1..Len(evs) :
                /\ acts[GasOffset + j].is_transaction_success = TRUE
                /\ acts[GasOffset + j].entry_function_id_str = entry_function_id_str
                /\ acts[GasOffset + j].activity_type = evs[j].typ
                /\ acts[GasOffset + j].event_account_address = evs[j].guid.account_address
                /\ acts[GasOffset + j].event_creation_number = Signed(evs[j].guid.creation_number)
                /\ acts[GasOffset + j].event_sequence_number = Signed(evs[j].sequence_number)
           /\ entry_function_id_str # <<>> =>
                (IsUser /\ txn.payload.kind = "EntryFunctionPayload")

\* a failed user transaction calling an entry function has returned a
\* gas-fee activity marked as failed, without entry function id, and then
\* the activity of its deposit event, marked as successful, with the id
C19_Witness ==
    /\ Completed
    /\ IsUser
    /\ ~txn.success
    /\ txn.payload.kind = "EntryFunctionPayload"
    /\ Len(Output.coin_activities) = 2
    /\ Output.coin_activities[1].is_gas_fee
    /\ ~Output.coin_activities[1].is_transaction_success
    /\ Output.coin_activities[1].entry_function_id_str = <<>>
    /\ ~Output.coin_activities[2].is_gas_fee
    /\ Output.coin_activities[2].is_transaction_success
    /\ Output.coin_activities[2].entry_function_id_str # <<>>

\* the changes and events the engine has no interest in
IsOtherTableItem(c) == c.kind = "WriteTableItem" /\ c.value_type # "u128"
IsOtherResource(c) ==
    c.kind = "WriteResource" /\ c.typ \notin {"0x1::coin::CoinInfo", "0x1::coin::CoinStore"}
IsOtherKind(c) == c.kind \notin {"WriteTableItem", "WriteResource"}
NotOfInterest(c) == IsOtherTableItem(c) \/ IsOtherResource(c) \/ IsOtherKind(c)

\* C14: in a Genesis or UserSubmitted transaction, the scan of a change that
\* is a table item of no aggregator shape, a resource write of a type other
\* than CoinInfo and CoinStore, or a change of another kind, and the scan of
\* an event that is neither a withdraw nor a deposit, also when no coin-store
\* write registers its guid, raise no panic and leave the activities, the
\* coin infos, the coin balances, the current coin balances and the two
\* lookups as they are; and what is returned has as many activities, coin
\* infos and coin balances as the transaction has items of interest.
C14_NotOfInterest ==
    /\ [][(IsProcessed(txn) /\
            \/ pc \in {"table_items", "resources"} /\ NotOfInterest(txn.changes[idx])
            \/ pc = "events" /\ ~Recognized(txn.events[idx]))
          => /\ UNCHANGED locals
             /\ UNCHANGED <<result, panic>>
             /\ pc' \in {"table_items", "resources", "events", "return"}]_vars
    /\ []((Completed /\ IsProcessed(txn)) =>
            /\ Len(Output.coin_activities) = GasOffset + Len(RecognizedEvents(txn))
            /\ Len(Output.coin_infos) = Cardinality(CoinInfoIdx(txn))
            /\ Len(Output.coin_balances) = Cardinality(CoinStoreIdx(txn))
            /\ Cardinality(DOMAIN Output.current_coin_balances) <=
                    Cardinality(CoinStoreIdx(txn)))

\* a transaction whose only event is a stake event on a guid that no
\* coin-store write registers, and whose changes include one of another
\* kind, has returned, without any activity of an event
C14_Witness ==
    /\ Completed
    /\ IsGenesis
    /\ Len(txn.events) = 1
    /\ ~Recognized(txn.events[1])
    /\ StoresOfGuid(txn, txn.events[1].guid) = {}
    /\ \E k \in 1..Len(txn.changes) : IsOtherKind(txn.changes[k])
    /\ Output.coin_activities = <<>>

\* what a call on transaction t is to give, read off the transaction alone

\* the call fails: a payload contradicts its type, a withdraw or deposit
\* event has no coin store, or the gas product overflows in a checked build
ExpectedFails(t) ==
    /\ IsProcessed(t)
    /\ \/ /\ t.variant = "UserTransaction"
          /\ t.gas_used * t.gas_unit_price >= Pow2(WordBits)
          /\ overflow_checks
       \/ \E k \in 1..Len(t.changes) :
            \/ /\ t.changes[k].kind = "WriteTableItem"
               /\ t.changes[k].value_type = "u128"
               /\ t.changes[k].value = <<>>
            \/ /\ t.changes[k].kind = "WriteResource"
               /\ t.changes[k].typ \in {"0x1::coin::CoinInfo", "0x1::coin::CoinStore"}
               /\ t.changes[k].data.shape = "Garbage"
       \/ \E k \in RecognizedIdx(t) :
            \/ t.events[k].data.shape = "Garbage"
            \/ StoresOfKey(t, t.events[k].guid) = {}

\* the four collections the call returns when it does not fail
ExpectedOutput(t, time) ==
    IF ~IsProcessed(t)
    THEN [coin_activities |-> <<>>, coin_infos |-> <<>>, coin_balances |-> <<>>,
          current_coin_balances |-> [k \in {} |-> k]]
    ELSE
    LET evs == RecognizedEvents(t)
        infos == SelectSeq(t.changes, IsCoinInfo)
        ws == CoinStoreWrites(t)
        entry == IF t.variant = "UserTransaction" /\ t.payload.kind = "EntryFunctionPayload"
                 THEN IF Len(FullName(t.payload)) <= 100
                      THEN <<FullName(t.payload)>>
                      ELSE <<[j \in 1..100 |-> FullName(t.payload)[j]]>>
                 ELSE <<>>
        gas == IF t.variant = "UserTransaction"
               THEN <<[transaction_version |-> Signed(t.version),
                       event_account_address |-> t.sender,
                       event_creation_number |-> -1,
                       event_sequence_number |-> -1,
                       owner_address |-> t.sender,
                       coin_type |-> "0x1::aptos_coin::AptosCoin",
                       amount |-> (t.gas_used * t.gas_unit_price) % Pow2(WordBits),
                       activity_type |-> "0x1::aptos_coin::GasBurnEvent",
                       is_gas_fee |-> TRUE,
                       is_transaction_success |-> t.success,
                       entry_function_id_str |-> <<>>,
                       inserted_at |-> time]>>
               ELSE <<>>
    IN [coin_activities |-> gas \o [j \in 1..Len(evs) |->
            [transaction_version |-> Signed(t.version),
             event_account_address |-> evs[j].guid.account_address,
             event_creation_number |-> Signed(evs[j].guid.creation_number),
             event_sequence_number |-> Signed(evs[j].sequence_number),
             owner_address |-> evs[j].guid.account_address,
             coin_type |-> t.changes[SetMax(StoresOfKey(t, evs[j].guid))].coin_type,
             amount |-> evs[j].data.amount,
             activity_type |-> evs[j].typ,
             is_gas_fee |-> FALSE,
             is_transaction_success |-> TRUE,
             entry_function_id_str |-> entry,
             inserted_at |-> time]],
        coin_infos |-> [j \in 1..Len(infos) |->
            [coin_type |-> infos[j].coin_type,
             transaction_version_created |-> Signed(t.version),
             creator_address |-> infos[j].address,
             name |-> infos[j].data.name,
             symbol |-> infos[j].data.symbol,
             decimals |-> infos[j].data.decimals,
             supply |-> IF infos[j].data.supply.tag = "Integer"
                        THEN <<infos[j].data.supply.value>>
                        ELSE IF Declarations(t, infos[j].data.supply.handle) = {}
                        THEN <<>>
                        ELSE <<t.changes[SetMax(Declarations(t,
                                    infos[j].data.supply.handle))].value[1]>>]],
        coin_balances |-> [j \in 1..Len(ws) |->
            [transaction_version |-> Signed(t.version),
             owner_address |-> ws[j].address,
             coin_type |-> ws[j].coin_type,
             amount |-> ws[j].data.coin_value,
             deposit_events |-> GuidKey(ws[j].data.deposit_events),
             withdraw_events |-> GuidKey(ws[j].data.withdraw_events)]],
        current_coin_balances |-> [key \in {BalanceKey(ws[j]) : j \in 1..Len(ws)} |->
            [owner_address |-> key[1],
             coin_type |-> key[2],
             amount |-> LastWriteOfKey(t, key).data.coin_value,
             last_transaction_version |-> Signed(t.version)]]]

\* an output, its insertion times set aside
SansTime(out) ==
    [out EXCEPT !.coin_activities =
        [j \in 1..Len(out.coin_activities) |->
            [out.coin_activities[j] EXCEPT !.inserted_at = 0]]]
\* the locals of a call, the insertion times set aside
CallSansTime(c) ==
    [c EXCEPT !.coin_activities =
                [j \in 1..Len(c.coin_activities) |->
                    [c.coin_activities[j] EXCEPT !.inserted_at = 0]],
              !.result = IF c.result = <<>> THEN <<>> ELSE <<SansTime(c.result[1])>>]
Terminated(c) == c.pc \in {"done", "panicked"}

\* C12: two calls of from_transaction on the same transaction, by the same
\* build, at different times: whenever the two calls are at the same place
\* they have accumulated the same activities, coin infos, coin balances and
\* current coin balances, the insertion times set aside; when both are over
\* either both have returned or both have panicked, with the same message;
\* and what both return is the same, the insertion times set aside.
C12_Idempotent ==
    worker_txn[1] = worker_txn[2] =>
        /\ (call[1].pc = call[2].pc /\ call[1].idx = call[2].idx) =>
                CallSansTime(call[1]) = CallSansTime(call[2])
        /\ (Terminated(call[1]) /\ Terminated(call[2])) =>
                /\ call[1].pc = call[2].pc
                /\ call[1].panic = call[2].panic
        /\ (call[1].pc = "done" /\ call[2].pc = "done") =>
                SansTime(call[1].result[1]) = SansTime(call[2].result[1])

\* the two calls on the same user transaction have returned, at different
\* times: the outputs differ, and only by the insertion time
C12_Witness ==
    /\ worker_txn[1] = worker_txn[2]
    /\ worker_txn[1].variant = "UserTransaction"
    /\ worker_now[1] # worker_now[2]
    /\ call[1].pc = "done"
    /\ call[2].pc = "done"
    /\ Len(call[1].result[1].coin_activities) = 2
    /\ call[1].result # call[2].result
    /\ SansTime(call[1].result[1]) = SansTime(call[2].result[1])

\* C15: under every interleaving of the steps of the workers, a call that
\* returns, returns what a call on its transaction alone is to return, a
\* call that panics is a call that is to fail alone, and the two lookups of
\* a call hold nothing but entries of the coin-store writes and the table
\* items of its own transaction.
C15_Independent ==
    \A w \in Workers :
        LET t == worker_txn[w]
        IN /\ call[w].pc = "done" =>
                /\ ~ExpectedFails(t)
                /\ call[w].result = <<ExpectedOutput(t, worker_now[w])>>
           /\ call[w].pc = "panicked" => ExpectedFails(t)
           /\ DOMAIN maps[w].all_event_to_coin_type \subseteq
                {GuidKey(g) : g \in UNION {StoreGuids(t.changes[k]) : k \in CoinStoreIdx(t)}}
           /\ DOMAIN maps[w].supply_lookup \subseteq DeclaredHandles(t)

\* worker 2 has processed a transaction whose coin-store write registers
\* guid (A, 7); the call of worker 1, whose transaction has a deposit on
\* (A, 7) and no coin-store write, has panicked all the same
C15_Witness ==
    /\ call[2].pc = "done"
    /\ CoinStoreIdx(worker_txn[2]) = {1}
    /\ Guid("0xA", 7) \in StoreGuids(worker_txn[2].changes[1])
    /\ Len(call[2].result[1].coin_activities) = 2
    /\ worker_txn[1].changes = <<>>
    /\ worker_txn[1].events = <<DepositA7>>
    /\ call[1].pc = "panicked"
    /\ call[1].panic[1].kind = "MissingCoinType"

\* a Genesis or UserSubmitted transaction with a table item, a resource
\* write or an event whose payload contradicts its recognized type
Malformed(t) ==
    /\ IsProcessed(t)
    /\ \/ \E k \in 1..Len(t.changes) :
            \/ /\ t.changes[k].kind = "WriteTableItem"
               /\ t.changes[k].value_type = "u128"
               /\ t.changes[k].value = <<>>
            \/ /\ t.changes[k].kind = "WriteResource"
               /\ t.changes[k].typ \in {"0x1::coin::CoinInfo", "0x1::coin::CoinStore"}
               /\ t.changes[k].data.shape = "Garbage"
       \/ \E k \in RecognizedIdx(t) : t.events[k].data.shape = "Garbage"

\* C13: the call on a Genesis or UserSubmitted transaction with a malformed
\* table item, resource write or event never returns anything: it never
\* gets to the return, and when it has panicked and its gas product fits
\* the word the panic is the decoder's error; a call that has panicked
\* takes no further step; and the call of the other worker is not affected:
\* it returns what it is to return alone and panics only if it is to fail
\* alone.
C13_DecodeError ==
    /\ [](\A w \in Workers : Malformed(worker_txn[w]) =>
            /\ call[w].result = <<>>
            /\ call[w].pc \notin {"return", "done"}
            /\ (/\ call[w].pc = "panicked"
                /\ worker_txn[w].gas_used * worker_txn[w].gas_unit_price < Pow2(WordBits)) =>
                    call[w].panic = <<[kind |-> "DecodeError"]>>
            /\ \A v \in Workers \ {w} :
                /\ call[v].pc = "done" =>
                    call[v].result = <<ExpectedOutput(worker_txn[v], worker_now[v])>>
                /\ call[v].pc = "panicked" => ExpectedFails(worker_txn[v]))
    /\ [][\A w \in Workers : call[w].pc = "panicked" => call'[w] = call[w]]_vars

\* the call on a transaction with a malformed table item has panicked with
\* the decoder's error and has returned nothing, and the call of the other
\* worker has returned the gas-fee activity and the activity of its deposit
C13_Witness ==
    /\ worker_txn[1].changes = <<WriteTableItem(42, "u128", <<>>)>>
    /\ call[1].pc = "panicked"
    /\ call[1].panic = <<[kind |-> "DecodeError"]>>
    /\ call[1].result = <<>>
    /\ call[2].pc = "done"
    /\ Len(call[2].result[1].coin_activities) = 2

\* the workers whose record for a key has been written
AppliedTo(key) ==
    {applied[j][1] : j \in {i \in 1..Len(applied) : applied[i][2] = key}}
\* among workers, one whose transaction has the highest version
Highest(ws) ==
    CHOOSE w \in ws : \A v \in ws : worker_txn[v].version <= worker_txn[w].version

====
